---- MODULE Spec2Model ----
\* jira2pr: ticket-identifier extraction (GitHubPR.extract_ticket_ids_from_title),
\* normalize_ticket_id, and the operations on pull requests built on them
\* (find_pr_by_ticket_id, update_pr_description, batch_update_prs, main).
\* A title is a sequence of one-character strings.  The regular expressions of
\* the source are kept as syntax trees and run by a backtracking matcher that
\* follows the priority order of Python's re module (greedy repetition, ordered
\* alternation, leftmost match, non-overlapping finditer).
EXTENDS Integers, Sequences, FiniteSets, TLC

VARIABLES calls, callNo, pc, known_projects, found_tickets, pidx, ret,
          args, github, patched, stats, prNo, locals, result

\* extract_ticket_ids_from_title and its caller
extractVars == <<calls, callNo, known_projects, found_tickets, pidx, ret>>

\* the operations on pull requests: the arguments of the operation under way,
\* the pull requests GitHub holds, the PATCH requests sent, the summary and
\* position of batch_update_prs, the local variables of main, and what the
\* operation returned
opVars == <<args, github, patched, stats, prNo, locals, result>>

vars == <<calls, callNo, pc, known_projects, found_tickets, pidx, ret,
          args, github, patched, stats, prNo, locals, result>>

----------------------------------------------------------------------------
\* Characters

LowerLetters == <<"a","b","c","d","e","f","g","h","i","j","k","l","m",
                  "n","o","p","q","r","s","t","u","v","w","x","y","z">>

UpperLetters == <<"A","B","C","D","E","F","G","H","I","J","K","L","M",
                  "N","O","P","Q","R","S","T","U","V","W","X","Y","Z">>

Range(s) == {s[i] : i \in 1..Len(s)}

\* [A-Za-z]
AZaz == Range(LowerLetters) \cup Range(UpperLetters)

\* \d
Digit == {"0","1","2","3","4","5","6","7","8","9"}

\* \s
Space == {" ", "\t"}

ToUpper == [c \in Range(LowerLetters) |->
              UpperLetters[CHOOSE i \in 1..Len(LowerLetters) : LowerLetters[i] = c]]

UpperChar(c) == IF c \in DOMAIN ToUpper THEN ToUpper[c] ELSE c

\* str.upper()
upper(s) == [i \in 1..Len(s) |-> UpperChar(s[i])]

----------------------------------------------------------------------------
\* Regular-expression syntax

Lit(c) == [op |-> "lit", c |-> c]

Set(S) == [op |-> "set", s |-> S]

NotSet(S) == [op |-> "nset", s |-> S]

Cat(rs) == [op |-> "cat", rs |-> rs]

Alt(rs) == [op |-> "alt", rs |-> rs]

\* r{min,max}, greedy; max < 0 stands for no upper limit
Rep(r, min, max) == [op |-> "rep", r |-> r, min |-> min, max |-> max]

Opt(r) == Rep(r, 0, 1)

Star(r) == Rep(r, 0, -1)

Plus(r) == Rep(r, 1, -1)

\* capturing group number n
Grp(n, r) == [op |-> "grp", n |-> n, r |-> r]

Bol == [op |-> "bol"]

Eol == [op |-> "eol"]

\* (?![S])
NotAhead(S) == [op |-> "nla", s |-> S]

\* (?<![S])
NotBehind(S) == [op |-> "nlb", s |-> S]

Word(w) == Cat([i \in 1..Len(w) |-> Lit(w[i])])

----------------------------------------------------------------------------
\* Backtracking matcher.  Match(re, t, i, caps) is the sequence of all ways in
\* which re matches t from position i, in the order in which a backtracking
\* engine tries them; each is the position after the match and the groups.

RECURSIVE Match(_, _, _, _)
RECURSIVE MatchCat(_, _, _, _, _)
RECURSIVE MatchAlt(_, _, _, _, _)
RECURSIVE MatchRep(_, _, _, _, _, _)
RECURSIVE Continue(_, _, _, _)

\* every outcome in sts continued by the continuation K (a record)
Continue(sts, k, t, K) ==
  IF k > Len(sts) THEN <<>>
  ELSE (CASE K.kind = "cat" -> MatchCat(K.rs, K.k, t, sts[k].pos, sts[k].caps)
          [] K.kind = "rep" -> IF sts[k].pos > K.from
                                 THEN MatchRep(K.r, K.min, K.max, t, sts[k].pos, sts[k].caps)
                                 ELSE <<>>
          [] K.kind = "grp" -> <<[pos |-> sts[k].pos,
                                  caps |-> [sts[k].caps EXCEPT ![K.n] =
                                              SubSeq(t, K.from, sts[k].pos - 1)]]>>)
       \o Continue(sts, k + 1, t, K)

MatchCat(rs, k, t, i, caps) ==
  IF k > Len(rs) THEN <<[pos |-> i, caps |-> caps]>>
  ELSE Continue(Match(rs[k], t, i, caps), 1, t, [kind |-> "cat", rs |-> rs, k |-> k + 1])

MatchAlt(rs, k, t, i, caps) ==
  IF k > Len(rs) THEN <<>>
  ELSE Match(rs[k], t, i, caps) \o MatchAlt(rs, k + 1, t, i, caps)

MatchRep(r, min, max, t, i, caps) ==
  (IF max = 0 THEN <<>>
   ELSE Continue(Match(r, t, i, caps), 1, t,
                 [kind |-> "rep", r |-> r, min |-> min - 1, max |-> max - 1, from |-> i]))
  \o (IF min <= 0 THEN <<[pos |-> i, caps |-> caps]>> ELSE <<>>)

Match(re, t, i, caps) ==
  LET here == <<[pos |-> i, caps |-> caps]>>
      next == <<[pos |-> i + 1, caps |-> caps]>>
  IN CASE re.op = "lit"  -> IF i <= Len(t) /\ UpperChar(t[i]) = UpperChar(re.c) THEN next ELSE <<>>
       [] re.op = "set"  -> IF i <= Len(t) /\ t[i] \in re.s THEN next ELSE <<>>
       [] re.op = "nset" -> IF i <= Len(t) /\ t[i] \notin re.s THEN next ELSE <<>>
       [] re.op = "bol"  -> IF i = 1 THEN here ELSE <<>>
       [] re.op = "eol"  -> IF i = Len(t) + 1 \/ (i = Len(t) /\ t[i] = "\n")
                               THEN here ELSE <<>>
       [] re.op = "nla"  -> IF i <= Len(t) /\ t[i] \in re.s THEN <<>> ELSE here
       [] re.op = "nlb"  -> IF i > 1 /\ t[i - 1] \in re.s THEN <<>> ELSE here
       [] re.op = "cat"  -> MatchCat(re.rs, 1, t, i, caps)
       [] re.op = "alt"  -> MatchAlt(re.rs, 1, t, i, caps)
       [] re.op = "rep"  -> MatchRep(re.r, re.min, re.max, t, i, caps)
       [] re.op = "grp"  -> Continue(Match(re.r, t, i, caps), 1, t,
                                     [kind |-> "grp", n |-> re.n, from |-> i])

\* a group that took no part in the match, or matched the empty string
NoGroup == <<>>

RECURSIVE FindFrom(_, _, _, _)

\* r holds the ways the pattern matches from position s on: the first one is
\* the match, and the search goes on behind it
FoundAt(re, ngroups, t, s, r) ==
  IF r = <<>> THEN FindFrom(re, ngroups, t, s + 1)
  ELSE <<[start |-> s, end |-> r[1].pos, groups |-> r[1].caps]>>
       \o FindFrom(re, ngroups, t, IF r[1].pos > s THEN r[1].pos ELSE s + 1)

FindFrom(re, ngroups, t, s) ==
  IF s > Len(t) + 1 THEN <<>>
  ELSE FoundAt(re, ngroups, t, s, Match(re, t, s, [g \in 1..ngroups |-> NoGroup]))

\* a finditer that stops after the first match, as re.search would
finditer_FirstMatchOnly(pattern, t) ==
  LET all == FindFrom(pattern.re, pattern.ngroups, t, 1)
  IN IF all = <<>> THEN <<>> ELSE <<all[1]>>

\* re.finditer(pattern, title, re.IGNORECASE): the non-overlapping matches,
\* left to right
finditer(pattern, t) == FindFrom(pattern.re, pattern.ngroups, t, 1)

\* re.match(pattern, s): a match at the start of s
match(re, s) == Match(re, s, 1, <<>>) # <<>>

----------------------------------------------------------------------------
\* The patterns of extract_ticket_ids_from_title

COMMIT_TYPES ==
  Alt(<<Word(<<"f","e","a","t">>), Word(<<"f","i","x">>), Word(<<"d","o","c","s">>),
        Word(<<"s","t","y","l","e">>), Word(<<"r","e","f","a","c","t","o","r">>),
        Word(<<"t","e","s","t">>), Word(<<"c","h","o","r","e">>), Word(<<"p","e","r","f">>),
        Word(<<"c","i">>), Word(<<"b","u","i","l","d">>), Word(<<"r","e","v","e","r","t">>),
        Word(<<"d","e","p","l","o","y">>),
        Word(<<"d","e","p","l","o","y","m","e","n","t">>),
        Word(<<"d","e","p","l","o","y","e","d">>)>>)

\* ([A-Za-z]{2,3}) as group n
PROJECT_KEY(n) == Grp(n, Rep(Set(AZaz), 2, 3))

\* (\d{1,6}) as group n
TICKET_NUMBER(n) == Grp(n, Rep(Set(Digit), 1, 6))

\* a separator class without the colon
SEPARATOR_NoColon == Opt(Set({"-"} \cup Space))

\* [-\s:]?
SEPARATOR == Opt(Set({"-", ":"} \cup Space))

\* \s*
OPTIONAL_SPACE == Star(Set(Space))

\* the ticket pattern without its lookahead (?![\d-])
TICKET_PATTERN_NoLookahead(g) ==
  Cat(<<NotBehind(AZaz), Grp(g + 1, PROJECT_KEY(g + 2)), SEPARATOR, OPTIONAL_SPACE,
        Grp(g + 3, TICKET_NUMBER(g + 4))>>)

\* the ticket pattern without its lookbehind (?<![A-Za-z])
TICKET_PATTERN_NoLookbehind(g) ==
  Cat(<<Grp(g + 1, PROJECT_KEY(g + 2)), SEPARATOR, OPTIONAL_SPACE,
        Grp(g + 3, TICKET_NUMBER(g + 4)), NotAhead(Digit \cup {"-"})>>)

\* (?<![A-Za-z])(PROJECT_KEY)SEPARATOR OPTIONAL_SPACE(TICKET_NUMBER)(?![\d-]),
\* g being the number of groups opened to the left of it in the whole pattern
TICKET_PATTERN(g) ==
  Cat(<<NotBehind(AZaz), Grp(g + 1, PROJECT_KEY(g + 2)), SEPARATOR, OPTIONAL_SPACE,
        Grp(g + 3, TICKET_NUMBER(g + 4)), NotAhead(Digit \cup {"-"})>>)

\* (?:fixes?|closes?|resolves?|refs?|references?|see|re|jira|ticket)
ACTION_WORDS ==
  Alt(<<Cat(<<Word(<<"f","i","x","e">>), Opt(Lit("s"))>>),
        Cat(<<Word(<<"c","l","o","s","e">>), Opt(Lit("s"))>>),
        Cat(<<Word(<<"r","e","s","o","l","v","e">>), Opt(Lit("s"))>>),
        Cat(<<Word(<<"r","e","f">>), Opt(Lit("s"))>>),
        Cat(<<Word(<<"r","e","f","e","r","e","n","c","e">>), Opt(Lit("s"))>>),
        Word(<<"s","e","e">>), Word(<<"r","e">>), Word(<<"j","i","r","a">>),
        Word(<<"t","i","c","k","e","t">>)>>)

conv_type_ticket ==
  [name |-> "conv_type_ticket", ngroups |-> 4,
   re |-> Cat(<<Bol, COMMIT_TYPES, Lit(":"), Plus(Set(Space)), TICKET_PATTERN(0)>>)]

conv_scope ==
  [name |-> "conv_scope", ngroups |-> 5,
   re |-> Cat(<<Bol, COMMIT_TYPES, Lit("("),
                Grp(1, Cat(<<Star(NotSet({")"})), TICKET_PATTERN(1), Star(NotSet({")"}))>>)),
                Lit(")"), Opt(Lit("!")), Lit(":"), Star(Set(Space))>>)]

conv_type_brackets ==
  [name |-> "conv_type_brackets", ngroups |-> 4,
   re |-> Cat(<<Bol, COMMIT_TYPES, Lit(":"), Plus(Set(Space)), Lit("["), Star(Set(Space)),
                TICKET_PATTERN(0), Star(Set(Space)), Lit("]")>>)]

ticket_colon ==
  [name |-> "ticket_colon", ngroups |-> 4, re |-> TICKET_PATTERN(0)]

start_simple ==
  [name |-> "start_simple", ngroups |-> 4,
   re |-> Cat(<<Bol, TICKET_PATTERN(0), Set(Space \cup {":", "-"})>>)]

ticket_brackets ==
  [name |-> "ticket_brackets", ngroups |-> 4,
   re |-> Cat(<<Lit("["), Star(Set(Space)), TICKET_PATTERN(0), Star(Set(Space)), Lit("]")>>)]

action_word ==
  [name |-> "action_word", ngroups |-> 4,
   re |-> Cat(<<ACTION_WORDS, Star(Set(Space)), Opt(Lit(":")), Star(Set(Space)),
                TICKET_PATTERN(0)>>)]

ticket_only ==
  [name |-> "ticket_only", ngroups |-> 4, re |-> TICKET_PATTERN(0)]

pattern_definitions ==
  <<conv_type_ticket, conv_scope, conv_type_brackets, ticket_colon,
    start_simple, ticket_brackets, action_word, ticket_only>>

----------------------------------------------------------------------------
\* One regex match turned into a ticket

\* re.match(r'^[A-Za-z]{2,3}$', group, re.IGNORECASE)
LooksLikeProjectKey(group) == match(Cat(<<Bol, Rep(Set(AZaz), 2, 3), Eol>>), group)

\* str.isdigit()
isdigit(s) == s # <<>> /\ \A i \in 1..Len(s) : s[i] \in Digit

Min(S) == CHOOSE x \in S : \A y \in S : x <= y

\* the first group that looks like a project key and the first all-digit group
\* after it; a missing one is <<>>
KeyAndNumber(groups) ==
  LET ks == {i \in 1..Len(groups) : groups[i] # NoGroup /\ LooksLikeProjectKey(groups[i])}
  IN IF ks = {} THEN [project_key |-> <<>>, ticket_number |-> <<>>]
     ELSE LET i == Min(ks)
              ns == {j \in (i + 1)..Len(groups) : groups[j] # NoGroup /\ isdigit(groups[j])}
          IN [project_key |-> upper(groups[i]),
              ticket_number |-> IF ns = {} THEN <<>> ELSE groups[Min(ns)]]

\* f"{project_key}-{ticket_number}"
TicketId(project_key, ticket_number) == project_key \o <<"-">> \o ticket_number

startswith(s, p) == Len(p) <= Len(s) /\ SubSeq(s, 1, Len(p)) = p

\* an optional argument: given = FALSE is None
None == [given |-> FALSE, v |-> <<>>]

Some(x) == [given |-> TRUE, v |-> x]

\* truth value of an optional string
TruthyStr(opt) == opt.given /\ opt.v # <<>>

\* truth value of an optional collection
TruthySet(opt) == opt.given /\ opt.v # {}

\* a prefix filter that forgets to upper-case the prefix
PassesPrefix_CaseSensitive(project_key, prefix) ==
  ~(TruthyStr(prefix) /\ ~startswith(project_key, prefix.v))

PassesPrefix(project_key, prefix) ==
  ~(TruthyStr(prefix) /\ ~startswith(project_key, upper(prefix.v)))

PassesKnown(project_key, known) ==
  ~(TruthySet(known) /\ project_key \notin known.v)

RECURSIVE ProcessMatches(_, _, _, _, _, _)
RECURSIVE ProcessMatches_ReturnBeforeFilters(_, _, _, _, _, _)
RECURSIVE ProcessMatches_NoDedup(_, _, _, _, _, _)

\* a loop that returns the first ticket before the filters are applied
ProcessMatches_ReturnBeforeFilters(matches, k, found, prefix, known, first_only) ==
  IF k > Len(matches) THEN [found |-> found, returned |-> FALSE]
  ELSE LET kn == KeyAndNumber(matches[k].groups)
           ticket_id == TicketId(kn.project_key, kn.ticket_number)
           skip == ProcessMatches_ReturnBeforeFilters(matches, k + 1, found, prefix, known,
                                                      first_only)
       IN IF kn.project_key = <<>> \/ kn.ticket_number = <<>> THEN skip
          ELSE IF first_only THEN [found |-> Append(found, ticket_id), returned |-> TRUE]
          ELSE IF ~PassesPrefix(kn.project_key, prefix) THEN skip
          ELSE IF ~PassesKnown(kn.project_key, known) THEN skip
          ELSE IF ticket_id \in Range(found) THEN skip
          ELSE ProcessMatches_ReturnBeforeFilters(matches, k + 1, Append(found, ticket_id),
                                                  prefix, known, first_only)

\* a loop without the "if ticket_id not in found_tickets" test
ProcessMatches_NoDedup(matches, k, found, prefix, known, first_only) ==
  IF k > Len(matches) THEN [found |-> found, returned |-> FALSE]
  ELSE LET kn == KeyAndNumber(matches[k].groups)
           ticket_id == TicketId(kn.project_key, kn.ticket_number)
           skip == ProcessMatches_NoDedup(matches, k + 1, found, prefix, known, first_only)
       IN IF kn.project_key = <<>> \/ kn.ticket_number = <<>> THEN skip
          ELSE IF ~PassesPrefix(kn.project_key, prefix) THEN skip
          ELSE IF ~PassesKnown(kn.project_key, known) THEN skip
          ELSE IF first_only THEN [found |-> Append(found, ticket_id), returned |-> TRUE]
          ELSE ProcessMatches_NoDedup(matches, k + 1, Append(found, ticket_id),
                                      prefix, known, first_only)

\* the loop over the matches of one pattern, from match k on; returned is TRUE
\* when the loop left the function through "return ticket_id"
ProcessMatches(matches, k, found, prefix, known, first_only) ==
  IF k > Len(matches) THEN [found |-> found, returned |-> FALSE]
  ELSE LET kn == KeyAndNumber(matches[k].groups)
           ticket_id == TicketId(kn.project_key, kn.ticket_number)
           skip == ProcessMatches(matches, k + 1, found, prefix, known, first_only)
       IN IF kn.project_key = <<>> \/ kn.ticket_number = <<>> THEN skip
          ELSE IF ~PassesPrefix(kn.project_key, prefix) THEN skip
          ELSE IF ~PassesKnown(kn.project_key, known) THEN skip
          ELSE IF ticket_id \in Range(found) THEN skip
          ELSE IF first_only THEN [found |-> Append(found, ticket_id), returned |-> TRUE]
          ELSE ProcessMatches(matches, k + 1, Append(found, ticket_id),
                              prefix, known, first_only)

----------------------------------------------------------------------------
\* Return values: None, a string, or a list of strings

ReturnNone == [tag |-> "None", v |-> <<>>]

ReturnStr(x) == [tag |-> "str", v |-> x]

ReturnList(xs) == [tag |-> "list", v |-> xs]

----------------------------------------------------------------------------
\* The calls of one scenario are made one after the other; each runs
\* extract_ticket_ids_from_title from its entry to its return.

arg == calls[callNo]

\* entry: the empty-title return and the conversion of known_projects
Call ==
  /\ pc = "idle"
  /\ IF arg.title = <<>>
       THEN /\ ret' = Append(ret, IF arg.first_only THEN ReturnNone ELSE ReturnList(<<>>))
            /\ pc' = "returned"
            /\ UNCHANGED <<known_projects, found_tickets, pidx>>
       ELSE /\ known_projects' = IF TruthySet(arg.known_projects)
                                   THEN Some({upper(p) : p \in arg.known_projects.v})
                                   ELSE arg.known_projects
            /\ found_tickets' = <<>>
            /\ pidx' = 1
            /\ pc' = "loop"
            /\ ret' = ret
  /\ UNCHANGED <<calls, callNo>>
  /\ UNCHANGED opVars

\* one iteration of "for pattern_name, pattern in pattern_definitions"
ProcessPattern ==
  /\ pc = "loop"
  /\ pidx <= Len(pattern_definitions)
  /\ \E r \in {ProcessMatches(finditer(pattern_definitions[pidx], arg.title), 1,
                              found_tickets, arg.prefix, known_projects, arg.first_only)} :
        /\ found_tickets' = r.found
        /\ IF r.returned
             THEN /\ ret' = Append(ret, ReturnStr(r.found[Len(r.found)]))
                  /\ pc' = "returned"
                  /\ pidx' = pidx
             ELSE /\ pidx' = pidx + 1
                  /\ UNCHANGED <<ret, pc>>
  /\ UNCHANGED <<calls, callNo, known_projects>>
  /\ UNCHANGED opVars

\* the return after the loop
Return ==
  /\ pc = "loop"
  /\ pidx > Len(pattern_definitions)
  /\ ret' = Append(ret, IF arg.first_only
                          THEN (IF found_tickets # <<>> THEN ReturnStr(found_tickets[1])
                                                       ELSE ReturnNone)
                          ELSE ReturnList(found_tickets))
  /\ pc' = "returned"
  /\ UNCHANGED <<calls, callNo, known_projects, found_tickets, pidx>>
  /\ UNCHANGED opVars

\* the caller goes on to its next call
NextCall ==
  /\ pc = "returned"
  /\ callNo < Len(calls)
  /\ callNo' = callNo + 1
  /\ pc' = "idle"
  /\ UNCHANGED <<calls, known_projects, found_tickets, pidx, ret>>
  /\ UNCHANGED opVars

Next == Call \/ ProcessPattern \/ Return \/ NextCall

\* no operation on pull requests under way
NoOperation ==
  /\ args = <<>>
  /\ github = <<>>
  /\ patched = <<>>
  /\ stats = <<>>
  /\ prNo = 0
  /\ locals = <<>>
  /\ result = <<>>

InitWith(cs) ==
  /\ calls = cs
  /\ callNo = 1
  /\ pc = "idle"
  /\ known_projects = None
  /\ found_tickets = <<>>
  /\ pidx = 1
  /\ ret = <<>>
  /\ NoOperation

----------------------------------------------------------------------------
\* Scenarios: the titles and filters the function is called with

RECURSIVE Concat(_)
Concat(ss) == IF ss = <<>> THEN <<>> ELSE Head(ss) \o Concat(Tail(ss))

\* what stands before the first ticket: nothing, or the opening of one of the
\* title conventions
Leads ==
  {<<>>,
   <<"f","i","x",":"," ">>,
   <<"f","i","x","(">>,
   <<"f","i","x",":"," ","[">>,
   <<"[">>,
   <<"s","e","e"," ">>}

FirstTickets == {<<"A","B","-","1">>, <<"c","d"," ","2">>}

Mids == {<<","," ">>, <<"]"," ">>, <<":"," ">>}

SecondTickets == {<<>>, <<"a","b","1">>, <<"C","D","-","2">>}

Tails == {<<>>, <<"]">>, <<")",":"," ","x">>, <<":"," ","x">>}

Titles ==
  {<<>>} \cup
  {Concat(<<l, a, m, b, e>>) :
     l \in Leads, a \in FirstTickets, m \in Mids, b \in SecondTickets, e \in Tails}

\* prefix and known_projects
Filters ==
  {<<None, None>>,
   <<Some(<<"a","b">>), None>>,
   <<None, Some({})>>,
   <<None, Some({<<"c","d">>})>>,
   <<Some(<<"c">>), Some({<<"a","b">>, <<"C","D">>})>>}

\* the three calls made on one title: the first ticket and the list under the
\* filters, and the list without filters
CallsOn(t, f) ==
  <<[title |-> t, prefix |-> f[1], known_projects |-> f[2], first_only |-> TRUE],
    [title |-> t, prefix |-> f[1], known_projects |-> f[2], first_only |-> FALSE],
    [title |-> t, prefix |-> None, known_projects |-> None, first_only |-> FALSE]>>

Init == \E t \in Titles, f \in Filters : InitWith(CallsOn(t, f))

Spec == Init /\ [][Next]_vars

\* Titles with one ticket-shaped text: a letter run of 1 to MaxKeyLen letters, a
\* separator, a digit run of 1 to MaxDigits digits, and what follows it.
MaxKeyLen == 4

MaxDigits == 7

KeyRun(n) == SubSeq(<<"a","B","c","D","e","F","g","H">>, 1, n)

DigitRun(n) == SubSeq(<<"0","1","2","3","4","5","6","7","8","9">>, 1, n)

ShapeSeparators == {<<>>, <<"-">>, <<":"," ">>}

ShapeTails == {<<>>, <<"-","9">>, <<":"," ","x">>, <<"]">>, <<")",":"," ","x">>}

ShapeTitles ==
  {Concat(<<l, KeyRun(k), sp, DigitRun(d), e>>) :
     l \in Leads, k \in 1..MaxKeyLen, sp \in ShapeSeparators, d \in 1..MaxDigits,
     e \in ShapeTails}

\* the first ticket and the list, without filters
InitShape ==
  \E t \in ShapeTitles : InitWith(SubSeq(CallsOn(t, <<None, None>>), 1, 2))

SpecShape == InitShape /\ [][Next]_vars

\* Pairs of titles that differ in the separator of their ticket only: the
\* second writes the hyphen, the first nothing, a colon or white space, with up
\* to MaxSpaces blanks on either side.
MaxSpaces == 1

Blanks(n) == [i \in 1..n |-> " "]

SeparatorForms ==
  {Concat(<<Blanks(a), c, Blanks(b)>>) :
     a \in 0..MaxSpaces, c \in {<<>>, <<":">>}, b \in 0..MaxSpaces}
  \cup {<<"-">>}

SepKeys == {<<"A","B">>, <<"a","b","c">>, <<"c","i">>}

SepNumber == <<"0","4","2">>

SepTails == {<<>>, <<":"," ","x">>, <<"]">>, <<")",":"," ","x">>}

SepCalls(l, k, sp, e, fo) ==
  <<[title |-> Concat(<<l, k, sp, SepNumber, e>>),
     prefix |-> None, known_projects |-> None, first_only |-> fo],
    [title |-> Concat(<<l, k, <<"-">>, SepNumber, e>>),
     prefix |-> None, known_projects |-> None, first_only |-> fo]>>

InitSep ==
  \E l \in Leads, k \in SepKeys, sp \in SeparatorForms, e \in SepTails, fo \in BOOLEAN :
     InitWith(SepCalls(l, k, sp, e, fo))

SpecSep == InitSep /\ [][Next]_vars

\* Titles that begin with a ticket: a key, a separator form, a number, the
\* character that follows the number, and the rest of the title.
StartKeys == {<<"A","B">>, <<"a","b","c">>}

StartSeparators == {<<>>, <<"-">>, <<":">>, <<" ">>, <<":"," ">>}

StartNumbers == {<<"7">>, <<"1","2","3">>}

StartFollows == {<<" ">>, <<"\t">>, <<":">>, <<"-">>}

StartRests == {<<>>, <<"t","e","x","t">>, <<"C","D","-","2">>}

StartTitles ==
  {Concat(<<k, sp, n, f, r>>) :
     k \in StartKeys, sp \in StartSeparators, n \in StartNumbers, f \in StartFollows,
     r \in StartRests}

StartFilters ==
  {<<None, None>>,
   <<Some(<<"a">>), None>>,
   <<None, Some({<<"a","b">>, <<"A","B","C">>})>>,
   <<Some(<<"x">>), None>>}

\* the first ticket and the list, under the same filters
InitStart ==
  \E t \in StartTitles, f \in StartFilters : InitWith(SubSeq(CallsOn(t, f), 1, 2))

SpecStart == InitStart /\ [][Next]_vars

----------------------------------------------------------------------------
\* normalize_ticket_id

\* no call of extract_ticket_ids_from_title under way
NoExtraction ==
  /\ calls = <<>>
  /\ callNo = 0
  /\ known_projects = None
  /\ found_tickets = <<>>
  /\ pidx = 1
  /\ ret = <<>>

\* str.replace(c, "")
remove(s, c) == SelectSeq(s, LAMBDA x : x # c)

\* ^([A-Z]+)[-]?([0-9]+)$
PROJECT_NUMBER ==
  Cat(<<Bol, Grp(1, Plus(Set(Range(UpperLetters)))), Opt(Set({"-"})),
        Grp(2, Plus(Set(Digit))), Eol>>)

\* the return after re.match: m holds the ways the pattern matched
AfterMatch(ticket_id, m) ==
  IF m # <<>> THEN TicketId(m[1].caps[1], m[1].caps[2]) ELSE ticket_id

\* a normalization that leaves the letter case alone
normalize_ticket_id_NoUpper(ticket_id) ==
  LET t == remove(ticket_id, " ")
  IN IF "-" \in Range(t) THEN t
     ELSE AfterMatch(t, Match(PROJECT_NUMBER, t, 1, [g \in 1..2 |-> NoGroup]))

\* a normalization that removes the first space only, replace(" ", "", 1)
normalize_ticket_id_FirstSpaceOnly(ticket_id) ==
  LET u == upper(ticket_id)
      sp == {i \in 1..Len(u) : u[i] = " "}
      t == IF sp = {} THEN u ELSE SubSeq(u, 1, Min(sp) - 1) \o SubSeq(u, Min(sp) + 1, Len(u))
  IN IF "-" \in Range(t) THEN t
     ELSE AfterMatch(t, Match(PROJECT_NUMBER, t, 1, [g \in 1..2 |-> NoGroup]))

normalize_ticket_id(ticket_id) ==
  LET t == remove(upper(ticket_id), " ")
  IN IF "-" \in Range(t) THEN t
     ELSE AfterMatch(t, Match(PROJECT_NUMBER, t, 1, [g \in 1..2 |-> NoGroup]))

\* normalize_ticket_id called on its argument, then on what it returned
Normalize ==
  /\ pc = "normalize"
  /\ Len(result) < 2
  /\ result' = Append(result, normalize_ticket_id(IF result = <<>> THEN args.ticket_id
                                                                  ELSE result[Len(result)]))
  /\ UNCHANGED <<pc, args, github, patched, stats, prNo, locals>>
  /\ UNCHANGED extractVars

NextNormalize == Normalize

\* the spellings handed to normalize_ticket_id: a key, a separator, a number,
\* and what may follow
NormKeys == {<<"a","b","c">>, <<"A","B","C">>, <<"a","B">>}

NormSeparators == {<<>>, <<"-">>, <<" ">>, <<" "," ">>, <<":"," ">>, <<":">>}

NormNumbers == {<<"1","2","3">>, <<"7">>}

NormTails == {<<>>, <<"\n">>, <<"-","2">>, <<"x">>, <<" ">>}

InitNormalize ==
  \E k \in NormKeys, sp \in NormSeparators, n \in NormNumbers, e \in NormTails :
     /\ args = [ticket_id |-> Concat(<<k, sp, n, e>>)]
     /\ pc = "normalize"
     /\ github = <<>> /\ patched = <<>> /\ stats = <<>> /\ prNo = 0 /\ locals = <<>>
     /\ result = <<>>
     /\ NoExtraction

SpecNormalize == InitNormalize /\ [][NextNormalize]_vars

----------------------------------------------------------------------------
\* extract_ticket_ids_from_title as its callers see it: from entry to return

RECURSIVE PatternLoop(_, _, _, _, _, _)
RECURSIVE AfterPattern(_, _, _, _, _, _)

\* r is what the loop over the matches of pattern p left
AfterPattern(r, p, title, prefix, known, first_only) ==
  IF r.returned THEN ReturnStr(r.found[Len(r.found)])
  ELSE PatternLoop(p + 1, r.found, title, prefix, known, first_only)

PatternLoop(p, found, title, prefix, known, first_only) ==
  IF p > Len(pattern_definitions)
    THEN (IF first_only
            THEN (IF found # <<>> THEN ReturnStr(found[1]) ELSE ReturnNone)
            ELSE ReturnList(found))
    ELSE AfterPattern(ProcessMatches(finditer(pattern_definitions[p], title), 1, found,
                                     prefix, known, first_only),
                      p, title, prefix, known, first_only)

extract_ticket_ids_from_title(title, prefix, known, first_only) ==
  IF title = <<>> THEN (IF first_only THEN ReturnNone ELSE ReturnList(<<>>))
  ELSE PatternLoop(1, <<>>, title, prefix,
                   IF TruthySet(known) THEN Some({upper(x) : x \in known.v}) ELSE known,
                   first_only)

----------------------------------------------------------------------------
\* _ticket_info_exists_in_description

\* re.search(pattern, s, re.IGNORECASE)
search(re, s) == \E i \in 1..(Len(s) + 1) : Match(re, s, i, <<>>) # <<>>

RECURSIVE rstrip(_, _)
\* str.rstrip(c)
rstrip(s, c) == IF s # <<>> /\ s[Len(s)] = c THEN rstrip(SubSeq(s, 1, Len(s) - 1), c) ELSE s

RECURSIVE split(_, _)
\* str.split(c)
split(s, c) ==
  LET at == {i \in 1..Len(s) : s[i] = c}
  IN IF at = {} THEN <<s>>
     ELSE <<SubSeq(s, 1, Min(at) - 1)>> \o split(SubSeq(s, Min(at) + 1, Len(s)), c)

BROWSE == <<"/","b","r","o","w","s","e","/">>

\* the pattern of the ticket URL, the base URL and the identifier escaped
ticket_url_pattern(jira_base_url, normalized_id) ==
  Word(rstrip(jira_base_url, "/") \o BROWSE \o normalized_id)

\* the patterns of the identifier: [ID], **ID**, **[ID]**, Jira.*ID, and the
\* first two parts of the identifier joined by a hyphen
id_patterns(normalized_id) ==
  <<Word(<<"[">> \o normalized_id \o <<"]">>),
    Word(<<"*","*">> \o normalized_id \o <<"*","*">>),
    Word(<<"*","*","[">> \o normalized_id \o <<"]","*","*">>),
    Cat(<<Word(<<"J","i","r","a">>), Star(NotSet({"\n"})), Word(normalized_id)>>),
    Word(split(normalized_id, "-")[1] \o <<"-">> \o split(normalized_id, "-")[2])>>

\* the call ends in an IndexError: no base URL and an identifier that has no
\* hyphen after normalization
exists_raises(description, ticket_id, jira_base_url) ==
  /\ description # <<>> /\ ticket_id # <<>>
  /\ ~TruthyStr(jira_base_url)
  /\ Len(split(normalize_ticket_id(ticket_id), "-")) < 2

\* the value returned when the call does not raise
ticket_info_exists_in_description(description, ticket_id, jira_base_url) ==
  /\ description # <<>> /\ ticket_id # <<>>
  /\ IF TruthyStr(jira_base_url)
       THEN search(ticket_url_pattern(jira_base_url.v, normalize_ticket_id(ticket_id)),
                   description)
       ELSE \E k \in 1..5 : search(id_patterns(normalize_ticket_id(ticket_id))[k], description)

----------------------------------------------------------------------------
\* update_pr_description.  Pull request number n is github[n]; a PATCH request
\* that was sent is recorded in patched, and changes the body when it succeeds.

\* sys.exit(code) in the step or call named at
Exit(code, at) == [exit |-> code, at |-> at]

\* an exception that nothing catches
Raised(exception, at) == [raised |-> exception, at |-> at]

ALREADY == "PR description already contains Jira ticket information or URL"

UPDATED == "PR description updated successfully"

ERROR_UPDATING == "Error updating PR description"

\* what the call does once get_pr_description has returned the current
\* description: the body it sends, the pair it returns, or the
\* IndexError of the check; patch_ok tells whether the PATCH request succeeds
update_pr_description(current, description, append, ticket_id, base_url, patch_ok) ==
  IF TruthyStr(ticket_id) /\ exists_raises(current, ticket_id.v, base_url)
    THEN [raised |-> TRUE, sent |-> <<>>, ret |-> <<>>]
  ELSE IF /\ TruthyStr(ticket_id)
          /\ ticket_info_exists_in_description(current, ticket_id.v, base_url)
    THEN [raised |-> FALSE, sent |-> <<>>, ret |-> <<TRUE, ALREADY>>]
  ELSE [raised |-> FALSE,
        sent |-> <<IF append /\ current # <<>>
                     THEN current \o <<"\n","\n">> \o description
                     ELSE description>>,
        ret |-> IF patch_ok THEN <<TRUE, UPDATED>> ELSE <<FALSE, ERROR_UPDATING>>]

\* the PATCH requests of outcome o on pull request n, as sent
Requests(n, o, patch_ok) ==
  [k \in 1..Len(o.sent) |-> [number |-> n, body |-> o.sent[k], ok |-> patch_ok]]

\* GitHub after outcome o on pull request n
Patch(gh, n, o, patch_ok) ==
  IF o.sent # <<>> /\ patch_ok THEN [gh EXCEPT ![n].body = o.sent[1]] ELSE gh

\* get_pr_description fails: print and sys.exit(1)
UpdateExits ==
  /\ pc = "update"
  /\ pc' = "exit"
  /\ result' = Exit(1, "get_pr_description")
  /\ UNCHANGED <<args, github, patched, stats, prNo, locals>>
  /\ UNCHANGED extractVars

\* the call from the successful get_pr_description to its return or IndexError
UpdatePrDescription ==
  /\ pc = "update"
  /\ \E patch_ok \in BOOLEAN :
       \E o \in {update_pr_description(github[args.pr_number].body, args.description,
                                        args.append, args.ticket_id, args.jira_base_url,
                                        patch_ok)} :
          /\ locals' = [current_description |-> github[args.pr_number].body]
          /\ patched' = patched \o Requests(args.pr_number, o, patch_ok)
          /\ github' = Patch(github, args.pr_number, o, patch_ok)
          /\ pc' = IF o.raised THEN "raised" ELSE "returned"
          /\ result' = IF o.raised
                         THEN Raised("IndexError", "_ticket_info_exists_in_description")
                         ELSE o.ret
  /\ UNCHANGED <<args, stats, prNo>>
  /\ UNCHANGED extractVars

NextUpdate == UpdateExits \/ UpdatePrDescription

\* the descriptions a pull request may have when the call is made
UpdateBodies ==
  {<<>>,
   <<"x">>,
   <<"[","A","B","-","1","]">>,
   <<"*","*","a","b","-","1","*","*">>,
   <<"s","e","e"," ","A","B","-","1",".">>,
   <<"A","B","-","1","2">>,
   <<"h",":","/","/","j","/","b","r","o","w","s","e","/","A","B","-","1">>,
   <<"h",":","/","/","k","/","b","r","o","w","s","e","/","A","B","-","1">>}

UpdateTickets ==
  {None, Some(<<"a","b","-","1">>), Some(<<"A","B","1">>), Some(<<"a","b",":","1">>)}

UpdateUrls == {None, Some(<<"h",":","/","/","j">>), Some(<<"h",":","/","/","j","/">>)}

NEW_TEXT == <<"n","e","w">>

InitUpdate ==
  \E b \in UpdateBodies, t \in UpdateTickets, u \in UpdateUrls, ap \in BOOLEAN :
     /\ github = <<[number |-> 1, title |-> <<>>, body |-> b]>>
     /\ args = [pr_number |-> 1, description |-> NEW_TEXT, append |-> ap,
                ticket_id |-> t, jira_base_url |-> u]
     /\ pc = "update"
     /\ patched = <<>> /\ stats = <<>> /\ prNo = 0 /\ locals = <<>> /\ result = <<>>
     /\ NoExtraction

SpecUpdate == InitUpdate /\ [][NextUpdate]_vars

----------------------------------------------------------------------------
\* JiraPRFormatter.  A formatter is its jira_url and what Jira holds for the
\* tickets asked of it.

\* the dictionary get_ticket_info returns when the request succeeds
get_ticket_info(jira_formatter, ticket_id) ==
  [key |-> ticket_id,
   summary |-> jira_formatter.summary,
   description |-> jira_formatter.description,
   url |-> jira_formatter.jira_url \o BROWSE \o ticket_id]

\* str.strip() leaves something
strip_nonempty(s) == \E i \in 1..Len(s) : s[i] \notin Space \cup {"\n"}

\* the heading lines are single symbols
format_description_for_pr(ticket_info) ==
  <<"### ---- TicketBot ----", "\n", "#### Ticket", "\n", "[">> \o ticket_info.key
  \o <<"]", "(">> \o ticket_info.url \o <<")", " ", "-", " ">> \o ticket_info.summary
  \o <<"\n", "\n">>
  \o (IF ticket_info.description # <<>> /\ strip_nonempty(ticket_info.description)
        THEN <<"#### Description", "\n", "\n">> \o ticket_info.description \o <<"\n", "\n">>
        ELSE <<>>)

----------------------------------------------------------------------------
\* batch_update_prs.  One pass of the loop is three steps: the ticket of the
\* title, the description and the check of it, and the update.

\* stats[field] += 1, counting a failed pull request as skipped too
Count_FailedAlsoSkipped(s, field) ==
  IF field = "failed" THEN [s EXCEPT !["failed"] = @ + 1, !["skipped"] = @ + 1]
  ELSE [s EXCEPT ![field] = @ + 1]

\* stats[field] += 1
Count(s, field) == [s EXCEPT ![field] = @ + 1]

\* a dry_run flag that is never looked at
DryRunRequested_Never(a) == FALSE

\* if dry_run
DryRunRequested(a) == a.dry_run

\* the pull request of the pass under way
pr == locals.pull_requests[prNo]

\* jira_formatter.jira_url as an optional string
jira_base_url == Some(args.jira_formatter.jira_url)

\* list_pull_requests("open") and the lines before the loop; a failed request
\* gives the empty list
BatchStart ==
  /\ pc = "batch"
  /\ \E pull_requests \in {github, <<>>} :
       IF pull_requests = <<>>
         THEN /\ result' = [total |-> 0, updated |-> 0, skipped |-> 0, failed |-> 0]
              /\ pc' = "returned"
              /\ UNCHANGED <<stats, prNo, locals>>
         ELSE /\ stats' = [total |-> Len(pull_requests), updated |-> 0, skipped |-> 0,
                           failed |-> 0]
              /\ locals' = [pull_requests |-> pull_requests, ticket_id |-> <<>>,
                            current_description |-> <<>>]
              /\ prNo' = 1
              /\ pc' = "extract"
              /\ result' = result
  /\ UNCHANGED <<args, github, patched>>
  /\ UNCHANGED extractVars

\* the ticket of the title; without one the pull request is skipped
ExtractTicket ==
  /\ pc = "extract"
  /\ prNo <= Len(locals.pull_requests)
  /\ \E t \in {extract_ticket_ids_from_title(pr.title, args.prefix, None, TRUE)} :
       IF t.tag = "None"
         THEN /\ stats' = Count(stats, "skipped")
              /\ prNo' = prNo + 1
              /\ UNCHANGED <<pc, locals>>
         ELSE /\ locals' = [locals EXCEPT !.ticket_id = t.v]
              /\ pc' = "get"
              /\ UNCHANGED <<stats, prNo>>
  /\ UNCHANGED <<args, github, patched, result>>
  /\ UNCHANGED extractVars

\* get_pr_description fails: print and sys.exit(1)
GetDescriptionExits ==
  /\ pc = "get"
  /\ pc' = "exit"
  /\ result' = Exit(1, "get_pr_description")
  /\ UNCHANGED <<args, github, patched, stats, prNo, locals>>
  /\ UNCHANGED extractVars

\* the description and the check of it; a pull request that holds the ticket
\* information is skipped
CheckDescription ==
  /\ pc = "get"
  /\ \E current_description \in {github[pr.number].body} :
       /\ locals' = [locals EXCEPT !.current_description = current_description]
       /\ IF /\ current_description # <<>>
             /\ ticket_info_exists_in_description(current_description, locals.ticket_id,
                                                  jira_base_url)
            THEN /\ stats' = Count(stats, "skipped")
                 /\ prNo' = prNo + 1
                 /\ pc' = "extract"
            ELSE /\ pc' = "update"
                 /\ UNCHANGED <<stats, prNo>>
  /\ UNCHANGED <<args, github, patched, result>>
  /\ UNCHANGED extractVars

\* get_ticket_info fails on the request or on a missing field: print and
\* sys.exit(1), which "except Exception" does not catch
JiraExits ==
  /\ pc = "update"
  /\ pc' = "exit"
  /\ result' = Exit(1, "get_ticket_info")
  /\ UNCHANGED <<args, github, patched, stats, prNo, locals>>
  /\ UNCHANGED extractVars

\* get_ticket_info or format_description_for_pr raises another exception (a
\* field of the answer is null): the pull request is counted as failed
JiraRaises ==
  /\ pc = "update"
  /\ stats' = Count(stats, "failed")
  /\ prNo' = prNo + 1
  /\ pc' = "extract"
  /\ UNCHANGED <<args, github, patched, locals, result>>
  /\ UNCHANGED extractVars

\* dry run: the pull request is counted as updated
DryRun ==
  /\ pc = "update"
  /\ DryRunRequested(args)
  /\ stats' = Count(stats, "updated")
  /\ prNo' = prNo + 1
  /\ pc' = "extract"
  /\ UNCHANGED <<args, github, patched, locals, result>>
  /\ UNCHANGED extractVars

\* get_pr_description fails inside update_pr_description: sys.exit(1)
UpdateGetExits ==
  /\ pc = "update"
  /\ ~DryRunRequested(args)
  /\ pc' = "exit"
  /\ result' = Exit(1, "update_pr_description")
  /\ UNCHANGED <<args, github, patched, stats, prNo, locals>>
  /\ UNCHANGED extractVars

\* update_pr_description with the formatted ticket: updated when it returns
\* success, skipped when the PATCH failed, failed when it raised
UpdatePR ==
  /\ pc = "update"
  /\ ~DryRunRequested(args)
  /\ \E patch_ok \in BOOLEAN :
       \E o \in {update_pr_description(
                    github[pr.number].body,
                    format_description_for_pr(get_ticket_info(args.jira_formatter,
                                                              locals.ticket_id)),
                    TRUE, Some(locals.ticket_id), jira_base_url, patch_ok)} :
          /\ patched' = patched \o Requests(pr.number, o, patch_ok)
          /\ github' = Patch(github, pr.number, o, patch_ok)
          /\ stats' = Count(stats, IF o.raised THEN "failed"
                                   ELSE IF o.ret[1] THEN "updated" ELSE "skipped")
  /\ prNo' = prNo + 1
  /\ pc' = "extract"
  /\ UNCHANGED <<args, locals, result>>
  /\ UNCHANGED extractVars

\* return stats
BatchReturn ==
  /\ pc = "extract"
  /\ prNo > Len(locals.pull_requests)
  /\ result' = stats
  /\ pc' = "returned"
  /\ UNCHANGED <<args, github, patched, stats, prNo, locals>>
  /\ UNCHANGED extractVars

NextBatch ==
  \/ BatchStart \/ ExtractTicket \/ GetDescriptionExits \/ CheckDescription
  \/ JiraExits \/ JiraRaises \/ DryRun \/ UpdateGetExits \/ UpdatePR \/ BatchReturn

\* the open pull requests: up to MaxPRs of them
MaxPRs == 2

JIRA_URL == <<"h",":","/","/","j">>

BatchTitles == {<<"a","b"," ","1",":"," ","x">>, <<"d","o","c","s">>}

BatchBodies == {<<>>, <<"x">>, JIRA_URL \o BROWSE \o <<"A","B","-","1">>}

PullRequests(titles, bodies) ==
  UNION {{[i \in 1..n |-> [number |-> i, title |-> c[i][1], body |-> c[i][2]]] :
            c \in [1..n -> titles \X bodies]} : n \in 0..MaxPRs}

InitBatch ==
  \E gh \in PullRequests(BatchTitles, BatchBodies), prefix \in {None, Some(<<"c">>)},
     dry_run \in BOOLEAN :
     /\ github = gh
     /\ args = [jira_formatter |-> [jira_url |-> JIRA_URL, summary |-> <<"s">>,
                                    description |-> <<"d">>],
                prefix |-> prefix, dry_run |-> dry_run]
     /\ pc = "batch"
     /\ patched = <<>> /\ stats = <<>> /\ prNo = 0 /\ locals = <<>> /\ result = <<>>
     /\ NoExtraction

SpecBatch == InitBatch /\ [][NextBatch]_vars

----------------------------------------------------------------------------
\* find_pr_by_ticket_id

\* a pull request as a return value
ReturnPR(x) == [tag |-> "pr", v |-> x]

\* ^KEY[-\s]?NUMBER with re.IGNORECASE, from the parts of the normalized
\* identifier
title_pattern(parts) ==
  Cat(<<Bol, Word(parts[1]), Opt(Set({"-"} \cup Space)), Word(parts[2])>>)

\* the loop over the listing
FirstMatching(pattern, pull_requests) ==
  LET hits == {n \in 1..Len(pull_requests) : match(pattern, pull_requests[n].title)}
  IN IF hits = {} THEN ReturnNone ELSE ReturnPR(pull_requests[Min(hits)])

\* the call from its entry to its return, or to the IndexError of
\* normalized_id.split('-')[1]; a failed list_pull_requests gives the empty list
FindPr ==
  /\ pc = "find"
  /\ \E pull_requests \in {github, <<>>} :
       \E parts \in {split(normalize_ticket_id(args.ticket_id), "-")} :
          /\ locals' = [pull_requests |-> pull_requests]
          /\ IF Len(parts) < 2
               THEN /\ pc' = "raised"
                    /\ result' = Raised("IndexError", "find_pr_by_ticket_id")
               ELSE /\ pc' = "returned"
                    /\ result' = FirstMatching(title_pattern(parts), pull_requests)
  /\ UNCHANGED <<args, github, patched, stats, prNo>>
  /\ UNCHANGED extractVars

NextFind == FindPr

FindTitles ==
  {<<"A","B","C","-","1","2","3",":"," ","x">>,
   <<"a","b","c"," ","1","2"," ","y">>,
   <<"A","B","C","-","1","2">>,
   <<"f","i","x",":"," ","A","B","C","-","1","2">>,
   <<"A","B","C","1","2",":"," ","z">>}

FindTickets ==
  {<<"A","B","C","-","1","2">>, <<"a","b","c","1","2">>, <<"A","B","C","-","1","2","3">>,
   <<"a","b","c",":","1","2">>, <<"X","Y","-","1">>}

InitFind ==
  \E gh \in PullRequests(FindTitles, {<<>>}), t \in FindTickets :
     /\ github = gh
     /\ args = [ticket_id |-> t]
     /\ pc = "find"
     /\ patched = <<>> /\ stats = <<>> /\ prNo = 0 /\ locals = <<>> /\ result = <<>>
     /\ NoExtraction

SpecFind == InitFind /\ [][NextFind]_vars

----------------------------------------------------------------------------
\* main without --batch-update.  args.update_pr is absent, the bare flag
\* (True) or a pull request number.

NoPR == [kind |-> "None", n |-> 0]

Flag == [kind |-> "flag", n |-> 0]

Number(n) == [kind |-> "int", n |-> n]

\* the checks of ticket_id and of the Jira parameters
MainValidate ==
  /\ pc = "main"
  /\ IF ~TruthyStr(args.ticket_id) \/ ~args.jira_params
       THEN pc' = "exit" /\ result' = Exit(1, "validate")
       ELSE pc' = "fetch" /\ result' = result
  /\ UNCHANGED <<args, github, patched, stats, prNo, locals>>
  /\ UNCHANGED extractVars

\* get_ticket_info fails: sys.exit(1)
MainFetchExits ==
  /\ pc = "fetch"
  /\ pc' = "exit"
  /\ result' = Exit(1, "fetch")
  /\ UNCHANGED <<args, github, patched, stats, prNo, locals>>
  /\ UNCHANGED extractVars

\* ticket_info, found_pr = None, and --update-pr without a value turning
\* --find-pr on; should_update, current_description and pr_description are
\* not bound yet
MainFetch ==
  /\ pc = "fetch"
  /\ locals' = [ticket_info |-> get_ticket_info(args.jira_formatter, args.ticket_id.v),
                find_pr |-> args.find_pr \/ args.update_pr = Flag,
                update_pr |-> args.update_pr,
                found_pr |-> ReturnNone,
                need_description |-> FALSE,
                pr_description |-> None,
                current_description |-> None,
                should_update |-> None]
  /\ pc' = "find"
  /\ UNCHANGED <<args, github, patched, stats, prNo, result>>
  /\ UNCHANGED extractVars

\* the GitHub step: the checks of its parameters and find_pr_by_ticket_id
MainFind ==
  /\ pc = "find"
  /\ IF ~(locals.find_pr \/ locals.update_pr.kind # "None")
       THEN pc' = "generate" /\ UNCHANGED <<locals, result>>
     ELSE IF ~args.github_token \/ ~args.github_repo
       THEN pc' = "exit" /\ result' = Exit(1, "find") /\ locals' = locals
     ELSE IF ~locals.find_pr
       THEN pc' = "generate" /\ UNCHANGED <<locals, result>>
     ELSE \E pull_requests \in {github, <<>>} :
            \E found_pr \in {FirstMatching(
                                title_pattern(split(normalize_ticket_id(args.ticket_id.v), "-")),
                                pull_requests)} :
               IF found_pr.tag = "pr"
                 THEN /\ locals' = [locals EXCEPT
                                      !.found_pr = found_pr,
                                      !.update_pr = IF @ = Flag THEN Number(found_pr.v.number)
                                                    ELSE @]
                      /\ pc' = "generate"
                      /\ result' = result
               ELSE IF locals.update_pr = Flag
                 THEN pc' = "exit" /\ result' = Exit(1, "find") /\ locals' = locals
               ELSE pc' = "generate" /\ UNCHANGED <<locals, result>>
  /\ UNCHANGED <<args, github, patched, stats, prNo>>
  /\ UNCHANGED extractVars

\* get_pr_description of the pull request to update fails: sys.exit(1)
MainGetExits ==
  /\ pc = "generate"
  /\ locals.update_pr.kind = "int"
  /\ pc' = "exit"
  /\ result' = Exit(1, "generate")
  /\ UNCHANGED <<args, github, patched, stats, prNo, locals>>
  /\ UNCHANGED extractVars

\* need_description, the description, the output file, and the check of the
\* pull request to update: sys.exit(0) when it holds the ticket information
MainGenerate ==
  /\ pc = "generate"
  /\ locals.update_pr.kind = "int" => locals.update_pr.n \in 1..Len(github)
  /\ LET need == args.output \/ locals.update_pr.kind = "int"
         body == github[locals.update_pr.n].body
     IN IF ~need
          THEN pc' = "update" /\ UNCHANGED <<locals, result>>
        ELSE IF locals.update_pr.kind # "int"
          THEN /\ locals' = [locals EXCEPT
                               !.need_description = TRUE,
                               !.pr_description =
                                  Some(format_description_for_pr(locals.ticket_info))]
               /\ pc' = "update"
               /\ result' = result
        ELSE /\ locals' = [locals EXCEPT
                             !.need_description = TRUE,
                             !.pr_description =
                                Some(format_description_for_pr(locals.ticket_info)),
                             !.current_description = Some(body),
                             !.should_update = Some(TRUE)]
             /\ IF /\ body # <<>>
                   /\ ticket_info_exists_in_description(body, args.ticket_id.v,
                                                        Some(args.jira_formatter.jira_url))
                  THEN pc' = "exit" /\ result' = Exit(0, "generate")
                  ELSE pc' = "update" /\ result' = result
  /\ UNCHANGED <<args, github, patched, stats, prNo>>
  /\ UNCHANGED extractVars

\* the second check of the repository, and "if should_update": the name is
\* read unbound (UnboundLocalError) when no pull request was to be updated,
\* else the PATCH request is sent; a failed PATCH is sys.exit(1)
MainUpdate ==
  /\ pc = "update"
  /\ IF ~args.github_repo
       THEN /\ pc' = "exit" /\ result' = Exit(1, "update")
            /\ UNCHANGED <<github, patched>>
     ELSE IF ~locals.should_update.given
       THEN /\ pc' = "raised" /\ result' = Raised("UnboundLocalError", "update")
            /\ UNCHANGED <<github, patched>>
     ELSE \E patch_ok \in BOOLEAN :
            LET body == IF ~args.replace /\ locals.current_description.v # <<>>
                          THEN locals.current_description.v \o <<"\n","\n">>
                               \o locals.pr_description.v
                          ELSE locals.pr_description.v
            IN /\ patched' = Append(patched, [number |-> locals.update_pr.n, body |-> body,
                                               ok |-> patch_ok])
               /\ IF patch_ok
                    THEN /\ github' = [github EXCEPT ![locals.update_pr.n].body = body]
                         /\ pc' = "final" /\ result' = result
                    ELSE /\ github' = github
                         /\ pc' = "exit" /\ result' = Exit(1, "update")
  /\ UNCHANGED <<args, stats, prNo, locals>>
  /\ UNCHANGED extractVars

PROCESSED == "Successfully processed Jira ticket"

GENERATED == "Successfully generated PR description for"

\* the final success message
MainFinal ==
  /\ pc = "final"
  /\ result' = IF locals.find_pr /\ ~locals.need_description THEN PROCESSED ELSE GENERATED
  /\ pc' = "done"
  /\ UNCHANGED <<args, github, patched, stats, prNo, locals>>
  /\ UNCHANGED extractVars

NextMain ==
  \/ MainValidate \/ MainFetchExits \/ MainFetch \/ MainFind \/ MainGetExits
  \/ MainGenerate \/ MainUpdate \/ MainFinal

\* the open pull requests of the repository
MainListings ==
  {<<>>,
   <<[number |-> 1, title |-> <<"A","B","-","1",":"," ","x">>, body |-> <<"x">>]>>,
   <<[number |-> 1, title |-> <<"d","o","c","s">>, body |-> <<>>],
     [number |-> 2, title |-> <<"a","b"," ","1">>,
      body |-> JIRA_URL \o BROWSE \o <<"A","B","-","1">>]>>}

\* the command lines
MainArgs ==
  [ticket_id : {None, Some(<<"A","B","-","1">>)},
   jira_params : BOOLEAN,
   jira_formatter : {[jira_url |-> JIRA_URL, summary |-> <<"s">>, description |-> <<>>]},
   output : BOOLEAN,
   update_pr : {NoPR, Flag, Number(1), Number(2)},
   find_pr : BOOLEAN,
   github_token : BOOLEAN,
   github_repo : BOOLEAN,
   replace : BOOLEAN]

InitMain ==
  \E a \in MainArgs, gh \in MainListings :
     /\ args = a
     /\ github = gh
     /\ pc = "main"
     /\ patched = <<>> /\ stats = <<>> /\ prNo = 0 /\ locals = <<>> /\ result = <<>>
     /\ NoExtraction

SpecMain == InitMain /\ [][NextMain]_vars

----------------------------------------------------------------------------
\* Vocabulary of the properties

\* the title and filters of the scenario
TheTitle == calls[1].title

ThePrefix == calls[1].prefix

TheKnown == calls[1].known_projects

AllReturned == Len(ret) = Len(calls)

\* the project key of an identifier KEY-NUMBER
KeyOf(id) == SubSeq(id, 1, Min({i \in 1..Len(id) : id[i] = "-"}) - 1)

NumberOf(id) == SubSeq(id, Min({i \in 1..Len(id) : id[i] = "-"}) + 1, Len(id))

\* the identifiers a call returned
ReturnedBy(n) ==
  IF ret[n].tag = "None" THEN {}
  ELSE IF ret[n].tag = "str" THEN {ret[n].v}
  ELSE Range(ret[n].v)

\* The places of a title where a ticket is written, stated without the regular
\* expression: klen letters from start on with no letter before them, then
\* nothing, or one separator and white space, or white space alone, then dlen
\* digits, and then neither a digit nor a hyphen.
GapOk(g) ==
  \/ g = <<>>
  \/ /\ g[1] \in {"-", ":"} \cup Space
     /\ \A i \in 2..Len(g) : g[i] \in Space

OccurrencesAt(t, s) ==
  {o \in [start : {s}, klen : 2..3, gap : 0..(Len(t) - s), dlen : 1..6] :
     LET gs == s + o.klen
         ds == gs + o.gap
         e  == ds + o.dlen
     IN /\ e <= Len(t) + 1
        /\ \A i \in s..(gs - 1) : t[i] \in AZaz
        /\ GapOk(SubSeq(t, gs, ds - 1))
        /\ \A i \in ds..(e - 1) : t[i] \in Digit
        /\ (e = Len(t) + 1 \/ t[e] \notin Digit \cup {"-"})}

Occurrences(t) ==
  UNION {OccurrencesAt(t, s) :
           s \in {i \in 1..Len(t) : t[i] \in AZaz /\ (i = 1 \/ t[i - 1] \notin AZaz)}}

OccKey(t, o) == upper(SubSeq(t, o.start, o.start + o.klen - 1))

OccNumber(t, o) ==
  SubSeq(t, o.start + o.klen + o.gap, o.start + o.klen + o.gap + o.dlen - 1)

OccEnd(o) == o.start + o.klen + o.gap + o.dlen

Canonical(t, o) == OccKey(t, o) \o <<"-">> \o OccNumber(t, o)

\* an identifier passes the filters of the scenario when its project key starts
\* with the upper-cased prefix and is one of the upper-cased known projects
KeptByFilters(id) ==
  /\ ThePrefix.given => startswith(KeyOf(id), upper(ThePrefix.v))
  /\ TheKnown.given => KeyOf(id) \in {upper(p) : p \in TheKnown.v}

----------------------------------------------------------------------------
\* Properties of the calls on one title (specification Spec)

\* C2: the value returned with first_only=True is the first element of the
\* list returned with first_only=False for the same title and filters, and is
\* None exactly when that list is empty.
C2_FirstIsHeadOfList ==
  Len(ret) >= 2 =>
    IF ret[2].v = <<>> THEN ret[1].tag = "None"
    ELSE ret[1].tag = "str" /\ ret[1].v = ret[2].v[1]

\* the filters rejected the first ticket of the title and the call returned a
\* later one
C2_Witness ==
  /\ AllReturned
  /\ ret[1].tag = "str"
  /\ ret[3].v # <<>>
  /\ ret[3].v[1] # ret[1].v

\* C6: with a non-empty known_projects and any prefix, the filtered list is the
\* unfiltered list restricted, order kept, to the identifiers whose project key
\* starts with the upper-cased prefix and is among the upper-cased known
\* projects.
C6_FiltersCommute ==
  (AllReturned /\ TheKnown.given /\ TheKnown.v # {}) =>
    ret[2].v = SelectSeq(ret[3].v, KeptByFilters)

\* a rejected identifier stands before a returned one
C6_Witness ==
  /\ AllReturned
  /\ TheKnown.given /\ TheKnown.v # {}
  /\ ThePrefix.given
  /\ ret[2].v # <<>>
  /\ ret[3].v[1] # ret[2].v[1]

\* C8: the list under construction never holds an identifier twice, and an
\* identifier once in the list keeps its position until the call returns.
C8_NoDuplicates ==
  /\ [](\A i, j \in 1..Len(found_tickets) :
           found_tickets[i] = found_tickets[j] => i = j)
  /\ [][pc = "loop" =>
          /\ Len(found_tickets') >= Len(found_tickets)
          /\ SubSeq(found_tickets', 1, Len(found_tickets)) = found_tickets]_vars
  /\ [](\A n \in 1..Len(ret) :
           ret[n].tag = "list" =>
             \A i, j \in 1..Len(ret[n].v) : ret[n].v[i] = ret[n].v[j] => i = j)

\* the title writes one ticket twice, in two spellings, and the list holds it
\* once
C8_Witness ==
  /\ AllReturned
  /\ Len(ret[3].v) = 1
  /\ \E o1, o2 \in Occurrences(TheTitle) :
       /\ o1.start # o2.start
       /\ o1.gap # o2.gap
       /\ SubSeq(TheTitle, o1.start, o1.start + 1) # SubSeq(TheTitle, o2.start, o2.start + 1)

\* C9: without filters the list holds exactly the canonical forms of the places
\* of the title where a ticket is written; an empty title gives the empty list,
\* and None when only the first ticket is asked for.
C9_AllTicketsFound ==
  AllReturned =>
    /\ Range(ret[3].v) = {Canonical(TheTitle, o) : o \in Occurrences(TheTitle)}
    /\ (~ThePrefix.given /\ ~TheKnown.given) =>
         (ret[1].tag = "None" <=> Occurrences(TheTitle) = {})

\* two different tickets of one title are both in the list
C9_Witness ==
  /\ AllReturned
  /\ Len(ret[3].v) = 2
  /\ Cardinality(Occurrences(TheTitle)) = 2

\* the places where a ticket is written inside a match of pattern number p
PatternTickets(p) ==
  LET ms == finditer(pattern_definitions[p], TheTitle)
      occ == Occurrences(TheTitle)
  IN {o \in occ : \E k \in DOMAIN ms : ms[k].start <= o.start /\ OccEnd(o) <= ms[k].end}

\* the filters as the calls apply them
Accepted(o) ==
  /\ PassesPrefix(OccKey(TheTitle, o), ThePrefix)
  /\ PassesKnown(OccKey(TheTitle, o),
                 IF TruthySet(TheKnown) THEN Some({upper(x) : x \in TheKnown.v})
                                        ELSE TheKnown)

\* the leftmost accepted ticket of the first pattern that has an accepted ticket
FirstMatch ==
  LET ps == {p \in DOMAIN pattern_definitions : \E o \in PatternTickets(p) : Accepted(o)}
  IN IF ps = {} THEN ReturnNone
     ELSE LET os == {o \in PatternTickets(Min(ps)) : Accepted(o)}
              first == CHOOSE o \in os : \A o2 \in os : o.start <= o2.start
          IN ReturnStr(Canonical(TheTitle, first))

\* C1: with first_only=True the call returns the leftmost accepted ticket of the
\* highest-priority pattern that has an accepted ticket, also when that pattern
\* is the conventional-commit scope and the scope holds several tickets.
C1_FirstMatchWins ==
  Len(ret) >= 1 => (ret[1].tag = FirstMatch.tag /\ ret[1].v = FirstMatch.v)

\* C7: when known_projects is supplied, empty or not, every returned identifier
\* has a project key that is one of the known projects.
C7_AllowList ==
  (Len(ret) >= 2 /\ TheKnown.given) =>
    \A id \in ReturnedBy(1) \cup ReturnedBy(2) :
       KeyOf(id) \in {upper(x) : x \in TheKnown.v}

\* the places where a ticket is written and a colon follows at once
ColonTickets ==
  {o \in Occurrences(TheTitle) :
     OccEnd(o) <= Len(TheTitle) /\ TheTitle[OccEnd(o)] = ":"}

\* C10: when none of the first three patterns applies and no filter is given, a
\* ticket with a colon right after it is discovered before every ticket that is
\* only bracketed, action-word-prefixed or bare, so it is the first of the list
\* and the value returned with first_only=True.
C10_ColonTicketFirst ==
  ( /\ AllReturned
    /\ ~ThePrefix.given /\ ~TheKnown.given
    /\ \A p \in 1..3 : finditer(pattern_definitions[p], TheTitle) = <<>>
    /\ ColonTickets # {} ) =>
    /\ ret[1].tag = "str"
    /\ ret[1].v \in {Canonical(TheTitle, o) : o \in ColonTickets}
    /\ ret[3].v[1] \in {Canonical(TheTitle, o) : o \in ColonTickets}

----------------------------------------------------------------------------
\* Properties of the shape of a ticket (specification SpecShape)

\* the places of title t where identifier id is written: its key in any letter
\* case, a separator, its number
WrittenAt(t, id) ==
  {w \in [start : 1..Len(t), gap : 0..Len(t)] :
     LET gs == w.start + Len(KeyOf(id))
         ds == gs + w.gap
         e  == ds + Len(NumberOf(id))
     IN /\ e <= Len(t) + 1
        /\ upper(SubSeq(t, w.start, gs - 1)) = KeyOf(id)
        /\ GapOk(SubSeq(t, gs, ds - 1))
        /\ SubSeq(t, ds, e - 1) = NumberOf(id)}

WrittenEnd(w, id) == w.start + Len(KeyOf(id)) + w.gap + Len(NumberOf(id))

AllReturnedIds == UNION {ReturnedBy(n) : n \in 1..Len(ret)}

\* a ticket-shaped text of the title (2 or 3 letters after a non-letter, a
\* separator, 1 to 6 digits) with a hyphen or a further digit right after it
TrailingParts(t) ==
  {w \in [start : 1..Len(t), klen : 2..3, gap : 0..Len(t), dlen : 1..6] :
     LET gs == w.start + w.klen
         ds == gs + w.gap
         e  == ds + w.dlen
     IN /\ e <= Len(t)
        /\ (w.start = 1 \/ t[w.start - 1] \notin AZaz)
        /\ \A i \in w.start..(gs - 1) : t[i] \in AZaz
        /\ GapOk(SubSeq(t, gs, ds - 1))
        /\ \A i \in ds..(e - 1) : t[i] \in Digit
        /\ t[e] \in Digit \cup {"-"}}

\* C3: an identifier is returned only from a place of the title where neither a
\* hyphen nor a further digit follows its number, so a ticket-shaped text with
\* a trailing part yields neither its ticket nor a truncation of its digits,
\* with first_only True or False.
C3_TrailingPartRejected ==
  \A id \in AllReturnedIds :
     \E w \in WrittenAt(TheTitle, id) :
        \/ WrittenEnd(w, id) = Len(TheTitle) + 1
        \/ TheTitle[WrittenEnd(w, id)] \notin Digit \cup {"-"}

\* both calls returned nothing on a title whose ticket-shaped text has a
\* trailing part
C3_Witness ==
  /\ AllReturned
  /\ ret[1].tag = "None"
  /\ ret[2].v = <<>>
  /\ \E w \in TrailingParts(TheTitle) :
       TheTitle[w.start + w.klen + w.gap + w.dlen] = "-"

\* C4: every returned identifier is 2 or 3 upper-case letters, a hyphen and 1
\* to 6 digits; the letters are a whole letter run of the title, upper-cased,
\* and the digits are those that follow it in the title, unchanged.
C4_ShapeInvariant ==
  \A id \in AllReturnedIds :
     /\ Len(KeyOf(id)) \in 2..3
     /\ \A i \in 1..Len(KeyOf(id)) : KeyOf(id)[i] \in Range(UpperLetters)
     /\ Len(NumberOf(id)) \in 1..6
     /\ \A i \in 1..Len(NumberOf(id)) : NumberOf(id)[i] \in Digit
     /\ \E w \in WrittenAt(TheTitle, id) :
           w.start = 1 \/ TheTitle[w.start - 1] \notin AZaz

\* a ticket written in mixed case with a leading zero is returned upper-cased
\* with its digits unchanged
C4_Witness ==
  /\ AllReturned
  /\ ret[1].tag = "str"
  /\ ret[1].v = <<"A","B","C","-","0","1","2">>
  /\ ret[2].v = <<ret[1].v>>

----------------------------------------------------------------------------
\* Properties of the separator (specification SpecSep)

\* the length of the longest common prefix of two titles
RECURSIVE CommonPrefix(_, _, _)
CommonPrefix(a, b, n) ==
  IF n < Len(a) /\ n < Len(b) /\ a[n + 1] = b[n + 1] THEN CommonPrefix(a, b, n + 1) ELSE n

\* what the first title writes where the second writes the hyphen
TheSeparator ==
  LET a == calls[1].title
      b == calls[2].title
      n == CommonPrefix(a, b, 0)
  IN IF a = b THEN <<"-">> ELSE SubSeq(a, n + 1, Len(a) - (Len(b) - n - 1))

SameReturn == ret[1].tag = ret[2].tag /\ ret[1].v = ret[2].v

\* C5 as stated: every separator form, white space before a colon included,
\* gives what the hyphen form gives in the same place.
C5_SeparatorEquivalence == AllReturned => SameReturn

\* C5 amended: the forms without white space before a colon (nothing, hyphen,
\* white space, colon, colon and white space) give what the hyphen form gives.
C5_SeparatorEquivalenceAmended ==
  (AllReturned /\ \A i \in 2..Len(TheSeparator) : TheSeparator[i] # ":") => SameReturn

\* "P: N" and "P-N" both gave the ticket
C5_Witness ==
  /\ AllReturned
  /\ TheSeparator = <<":", " ">>
  /\ ReturnedBy(1) # {}
  /\ SameReturn

----------------------------------------------------------------------------
\* Properties of a ticket at the start of the title (specification SpecStart)

\* the tickets written from the first character of title t on whose number has
\* a character of F right after it: 2 or 3 letters, a separator, 1 to 6 digits
StartTickets(t, F) ==
  {w \in [start : {1}, klen : 2..3, gap : 0..Len(t), dlen : 1..6] :
     LET gs == 1 + w.klen
         ds == gs + w.gap
         e  == ds + w.dlen
     IN /\ e <= Len(t)
        /\ \A i \in 1..(gs - 1) : t[i] \in AZaz
        /\ GapOk(SubSeq(t, gs, ds - 1))
        /\ \A i \in ds..(e - 1) : t[i] \in Digit
        /\ t[e] \in F}

\* every call that returned gave the ticket the title starts with, when the
\* filters keep it and a character of F follows it
StartTicketYielded(F) ==
  \A n \in 1..Len(ret) :
     \A w \in StartTickets(TheTitle, F) :
        KeptByFilters(Canonical(TheTitle, w)) => Canonical(TheTitle, w) \in ReturnedBy(n)

\* C11: a title that starts with a ticket followed at once by white space, a
\* colon or a hyphen yields that ticket when no filter rejects it.
C11_StartTicket == StartTicketYielded(Space \cup {":", "-"})

----------------------------------------------------------------------------
\* Properties of normalize_ticket_id (specification SpecNormalize)

\* the argument is key k, separator sp and number n, and the call returned
NormalizedFrom(k, sp, n) == result # <<>> /\ args.ticket_id = Concat(<<k, sp, n>>)

\* C12 as stated: the spellings PN, P-N, P N and P: N of a ticket, in any
\* letter case, all normalize to the upper-case P-N.
C12_Spellings ==
  \A k \in NormKeys, n \in NormNumbers, sp \in {<<>>, <<"-">>, <<" ">>, <<":"," ">>} :
     NormalizedFrom(k, sp, n) => result[1] = TicketId(upper(k), n)

\* C12 amended: the spellings PN, P-N and P N, with one space or more, in any
\* letter case, normalize to the upper-case P-N; a colon is kept, so P: N and
\* P:N give the upper-case P:N.
C12_SpellingsAmended ==
  \A k \in NormKeys, n \in NormNumbers :
     /\ \A sp \in {<<>>, <<"-">>, <<" ">>, <<" "," ">>} :
           NormalizedFrom(k, sp, n) => result[1] = TicketId(upper(k), n)
     /\ \A sp \in {<<":"," ">>, <<":">>} :
           NormalizedFrom(k, sp, n) => result[1] = upper(k) \o <<":">> \o n

\* "a B 7" gave AB-7
C12_Witness ==
  /\ args.ticket_id = <<"a","B"," ","7">>
  /\ result # <<>>
  /\ result[1] = <<"A","B","-","7">>

\* upper-case letters, a hyphen, digits
CanonicalId(x) ==
  \E h \in 2..(Len(x) - 1) :
     /\ x[h] = "-"
     /\ \A i \in 1..(h - 1) : x[i] \in Range(UpperLetters)
     /\ \A i \in (h + 1)..Len(x) : x[i] \in Digit

\* C13: normalizing what normalize_ticket_id returned gives the same string
\* again, and a canonical PROJECT-NUMBER argument is returned unchanged.
C13_Idempotent ==
  /\ Len(result) = 2 => result[2] = result[1]
  /\ (result # <<>> /\ CanonicalId(args.ticket_id)) => result[1] = args.ticket_id

\* a spelling that the first call changed was left alone by the second
C13_Witness ==
  /\ Len(result) = 2
  /\ result[1] # args.ticket_id
  /\ CanonicalId(result[1])
  /\ result[2] = result[1]

----------------------------------------------------------------------------
\* Properties of update_pr_description (specification SpecUpdate)

\* s holds the identifier id, letter case ignored, as a whole: no letter before
\* it and no digit after it
contains(s, id) ==
  \E i \in 1..(Len(s) - Len(id) + 1) :
     /\ upper(SubSeq(s, i, i + Len(id) - 1)) = upper(id)
     /\ (i = 1 \/ s[i - 1] \notin AZaz)
     /\ (i + Len(id) > Len(s) \/ s[i + Len(id)] \notin Digit)

\* C15: with a ticket_id, when the description read already holds the ticket
\* identifier (bracketed, bold or bare, hence also inside its browse URL), with
\* or without jira_base_url, no PATCH is sent and the call returns True with
\* the "already contains" message; otherwise, with append=True, one PATCH is
\* sent whose body is the description read, a blank line and the new text.
C15_NoPatchWhenPresent ==
  (pc \in {"returned", "raised"} /\ TruthyStr(args.ticket_id)) =>
    IF contains(locals.current_description, normalize_ticket_id(args.ticket_id.v))
      THEN patched = <<>> /\ result = <<TRUE, ALREADY>>
      ELSE args.append =>
             /\ Len(patched) = 1
             /\ patched[1].body =
                  IF locals.current_description = <<>> THEN args.description
                  ELSE locals.current_description \o <<"\n","\n">> \o args.description

----------------------------------------------------------------------------
\* Properties of batch_update_prs (specification SpecBatch)

\* the pull requests of the listing that have a ticket in the title which the
\* description does not hold yet
ToUpdate ==
  {n \in 1..Len(github) :
     \E t \in {extract_ticket_ids_from_title(github[n].title, args.prefix, None, TRUE)} :
        /\ t.tag = "str"
        /\ ~ticket_info_exists_in_description(github[n].body, t.v, jira_base_url)}

\* C14: with dry_run=True no PATCH request is sent for any pull request and no
\* description changes; every pull request that would be updated is counted,
\* in "updated" unless its ticket could not be formatted.
C14_DryRun ==
  /\ [](args.dry_run => patched = <<>>)
  /\ [][args.dry_run => github' = github]_vars
  /\ []((args.dry_run /\ pc = "returned" /\ locals # <<>>) =>
          /\ result.updated + result.failed = Cardinality(ToUpdate)
          /\ result.skipped = Len(github) - Cardinality(ToUpdate))

\* a dry run over two pull requests counted both as updated
C14_Witness ==
  /\ args.dry_run
  /\ pc = "returned"
  /\ result.total = 2
  /\ result.updated = 2
  /\ patched = <<>>

\* C16: an error while reading a description, fetching the ticket or patching
\* is recorded for that pull request and the remaining ones are processed: the
\* call never ends before the last pull request of the listing.
C16_ErrorsDoNotStop ==
  pc = "exit" => prNo > Len(locals.pull_requests)

\* C19: each pass of the loop adds one to exactly one of updated, skipped and
\* failed, and on return their sum is total, the length of the listing.
C19_Accounting ==
  /\ [][(pc # "batch" /\ prNo' = prNo + 1) =>
          \E f \in {"updated", "skipped", "failed"} :
             stats' = [stats EXCEPT ![f] = @ + 1]]_vars
  /\ [](pc = "returned" =>
          /\ result.updated + result.skipped + result.failed = result.total
          /\ result.total = (IF locals = <<>> THEN 0 ELSE Len(locals.pull_requests)))

\* a listing of two pull requests returned with one updated and one failed
C19_Witness ==
  /\ pc = "returned"
  /\ result.total = 2
  /\ result.updated = 1
  /\ result.failed = 1

----------------------------------------------------------------------------
\* Properties of find_pr_by_ticket_id (specification SpecFind)

\* title t starts with exactly the ticket id: its key in any letter case,
\* nothing, a hyphen or a white-space character, its number, and no further
\* digit
StartsWithTicket(t, id) ==
  \E w \in WrittenAt(t, id) :
     /\ w.start = 1
     /\ w.gap = 0 \/ (w.gap = 1 /\ t[Len(KeyOf(id)) + 1] \in {"-"} \cup Space)
     /\ (WrittenEnd(w, id) = Len(t) + 1 \/ t[WrittenEnd(w, id)] \notin Digit)

\* C18: the call returns the first pull request of the listing whose title
\* starts with exactly the requested ticket, the whole number included (ABC-12
\* does not select "ABC-123: ..."), and None when no title starts with it.
C18_ExactTicket ==
  pc = "returned" =>
    LET id == normalize_ticket_id(args.ticket_id)
        hits == {n \in 1..Len(locals.pull_requests) :
                   StartsWithTicket(locals.pull_requests[n].title, id)}
    IN IF hits = {} THEN result = ReturnNone
       ELSE result = ReturnPR(locals.pull_requests[Min(hits)])

----------------------------------------------------------------------------
\* Properties of main (specification SpecMain)

\* C17: a run without --update-pr (a ticket with --find-pr alone, --output
\* alone, or neither) sends no PATCH and, once its parameters are accepted and
\* its requests answered, goes on to the final success message: it does not
\* end in the update step; and a PATCH is sent only for the pull request that
\* --update-pr resolved to, whose description does not hold the ticket.
C17_NoUpdateRun ==
  /\ args.update_pr = NoPR =>
        /\ patched = <<>>
        /\ pc \in {"exit", "raised"} => result.at \in {"validate", "fetch", "find"}
  /\ patched # <<>> =>
        /\ locals.update_pr.kind = "int"
        /\ patched[1].number = locals.update_pr.n
        /\ ~contains(locals.current_description.v, normalize_ticket_id(args.ticket_id.v))

====
